---- MODULE Spec2Model ----
(***************************************************************************)
(* A model of NVDA's logHandler (source/logHandler.py): the level policy   *)
(* (initialize, isLogLevelForced, setLogLevelFromConfig), the severity     *)
(* gate, the exception classifier, the thread exception hook, the log      *)
(* fragment tracker and the call-site resolver getCodePath.                *)
(***************************************************************************)
EXTENDS Integers, Sequences, FiniteSets

(***************************************************************************)
(* Severity levels: the standard ones imported from logging and the three  *)
(* custom ones of Logger.                                                   *)
(***************************************************************************)
DEBUG == 10
IO == 12
DEBUGWARNING == 15
INFO == 20
WARNING == 30
ERROR == 40
CRITICAL == 50
OFF == 100

(* Error codes the exception classifier names. *)
ERROR_INVALID_WINDOW_HANDLE == 1400
ERROR_TIMEOUT == 1460
EPT_S_NOT_REGISTERED == 1753
E_ACCESSDENIED == -2147024891
CO_E_OBJNOTCONNECTED == -2147220995
EVENT_E_ALL_SUBSCRIBERS_FAILED == -2147220991
(* RPCConstants.RPC, the Windows values of the names logHandler uses. *)
RPC_S_SERVER_UNAVAILABLE == 1722
RPC_S_CALL_FAILED_DNE == 1727
RPC_E_CALL_REJECTED == -2147418111
RPC_E_CALL_CANCELED == -2147418110
RPC_E_DISCONNECTED == -2147417848

(* Logger.fragmentStart = None is written as the offset -1. *)
NoMark == -1

(* Bounds of the model. *)
MaxFileLen == 3
MaxChunk == 2

None == "None"
LogFileNames == {None, "nvda.log"}
(* --log-level: 0 when not given, else one of the levels the option offers. *)
LogLevelArgs == {0, DEBUG, IO, DEBUGWARNING, INFO, OFF}
(* Values the configuration's loggingLevel key may hold. *)
ConfNames == {"IO", "DEBUG", "DEBUGWARNING", "INFO", "OFF", "WARNING", "ERROR", "bogus"}

VARIABLES
    appArgs,        \* globalVars.appArgs: secure, debugLogging, logLevel, noLogging, logFileName
    logHandler,     \* the class of the module's logHandler singleton ("None" before initialize)
    rootLevel,      \* log.root.level, the effective threshold of log
    conf,           \* config.conf["general"]["loggingLevel"]
    hook,           \* threading.excepthook
    file,           \* the bytes of the log file
    fragmentStart,  \* Logger.fragmentStart
    sinceMark,      \* history: the bytes appended to the file since the last successful mark
    emptyRead,      \* history: a getFragment has read nothing since the last successful mark
    emitted,        \* the records the last operation handed to the emission framework
    viewerCalls,    \* the calls the last operation made on the live log viewer
    lastCall,       \* the last operation and its inputs
    lastResult      \* what the last operation returned

vars == <<appArgs, logHandler, rootLevel, conf, hook, file, fragmentStart, sinceMark,
          emptyRead, emitted, viewerCalls, lastCall, lastResult>>

NoCall == [op |-> "none", arg |-> None]
NoResult == [kind |-> "none"]

(***************************************************************************)
(* The gate of logging.Logger: log has no level of its own, so its         *)
(* effective level is the root's.                                           *)
(***************************************************************************)
(* The comparison the other way round. *)
IsEnabledForInverted(level) == level <= rootLevel

IsEnabledFor(level) == level >= rootLevel

(* logging.getLevelName on a name: the registered number, else "Level <name>". *)
NameToLevel ==
    [n \in {"CRITICAL", "FATAL", "ERROR", "WARN", "WARNING", "INFO", "DEBUG", "NOTSET",
            "DEBUGWARNING", "IO", "OFF"} |->
        CASE n = "CRITICAL" -> CRITICAL
          [] n = "FATAL" -> CRITICAL
          [] n = "ERROR" -> ERROR
          [] n = "WARN" -> WARNING
          [] n = "WARNING" -> WARNING
          [] n = "INFO" -> INFO
          [] n = "DEBUG" -> DEBUG
          [] n = "NOTSET" -> 0
          [] n = "DEBUGWARNING" -> DEBUGWARNING
          [] n = "IO" -> IO
          [] n = "OFF" -> OFF]

GetLevelName(levelName) ==
    IF levelName \in DOMAIN NameToLevel
    THEN [isNumber |-> TRUE, number |-> NameToLevel[levelName]]
    ELSE [isNumber |-> FALSE, number |-> 0]

(* logging.getLevelName(log.INFO) *)
InfoName == "INFO"

(* The record _log hands to the emission framework. *)
Record(level, msg, codepath) == [level |-> level, msg |-> msg, codepath |-> codepath]

(* What the FileHandler's stream writes for one record: the formatted text
   (one character here) and the line terminator of a Windows text stream. *)
RecordBytes == <<97, 13, 10>>

(***************************************************************************)
(* Logger._log and the calls that reach it.                                *)
(***************************************************************************)
(* The request as the caller made it, secure mode or not. *)
ViewerAsRequested(activateLogViewer) == activateLogViewer

(* Whether _log activates the live viewer. *)
ViewerRequested(activateLogViewer) ==
    IF appArgs.secure THEN FALSE ELSE activateLogViewer

(* The state after _log(level, msg, ...) has emitted its record. *)
LogEmit(level, msg, codepath, activateLogViewer) ==
    /\ logHandler = "FileHandler" => Len(file) + Len(RecordBytes) <= MaxFileLen
    /\ viewerCalls' = IF ViewerRequested(activateLogViewer)
                      THEN <<"activate", "SetInsertionPointEnd", "refresh">>
                      ELSE <<>>
    /\ emitted' = <<Record(level, msg, codepath)>>
    /\ IF logHandler = "FileHandler"
       THEN file' = file \o RecordBytes /\ sinceMark' = sinceMark \o RecordBytes
       ELSE UNCHANGED <<file, sinceMark>>

(* A gated call that returns without reaching _log. *)
LogSkip ==
    /\ viewerCalls' = <<>>
    /\ emitted' = <<>>
    /\ UNCHANGED <<file, sinceMark>>

(* log.log(level, msg, activateLogViewer=...) and the named-level calls of
   logging.Logger: gated by isEnabledFor, then _log. *)
LogCall(level, activateLogViewer) ==
    /\ logHandler # "None"
    /\ IF IsEnabledFor(level)
       THEN LogEmit(level, "msg", "caller", activateLogViewer)
       ELSE LogSkip
    /\ lastCall' = [op |-> "log", arg |-> [level |-> level,
                                           activateLogViewer |-> activateLogViewer]]
    /\ lastResult' = NoResult
    /\ UNCHANGED <<appArgs, logHandler, rootLevel, conf, hook, fragmentStart, emptyRead>>

(***************************************************************************)
(* The level policy: initialize and setLogLevelFromConfig.                  *)
(***************************************************************************)
(* A disable request that a debug flag or an explicit level no longer overrides. *)
ShouldDisableLoggingNoOverride == appArgs.secure \/ appArgs.noLogging

ShouldDisableLogging ==
    LET logLevelOverridden == appArgs.debugLogging \/ ~(appArgs.logLevel = 0)
        noLoggingRequested == appArgs.noLogging /\ ~logLevelOverridden
    IN  appArgs.secure \/ noLoggingRequested

(* A forced test that forgets the --no-logging flag. *)
IsLogLevelForcedWithoutNoLogging ==
    appArgs.secure \/ appArgs.debugLogging \/ appArgs.logLevel # 0

IsLogLevelForced ==
    \/ appArgs.secure
    \/ appArgs.debugLogging
    \/ appArgs.logLevel # 0
    \/ appArgs.noLogging

(* The level initialize sets when logging is not disabled. *)
StartLevel ==
    IF appArgs.debugLogging THEN DEBUG
    ELSE IF appArgs.logLevel <= 0 THEN INFO
    ELSE appArgs.logLevel

TypeOK ==
    /\ appArgs \in [secure : BOOLEAN, debugLogging : BOOLEAN, logLevel : LogLevelArgs,
                    noLogging : BOOLEAN, logFileName : LogFileNames]
    /\ logHandler \in {"None", "FileHandler", "NullHandler", "RemoteHandler"}
    /\ conf \in ConfNames \cup {InfoName}
    /\ fragmentStart \in {NoMark} \cup (0 .. Len(file))
    /\ Len(file) <= MaxFileLen

Init ==
    /\ appArgs \in [secure : BOOLEAN, debugLogging : BOOLEAN, logLevel : LogLevelArgs,
                    noLogging : BOOLEAN, logFileName : LogFileNames]
    /\ logHandler = "None"
    /\ rootLevel = WARNING
    /\ conf \in ConfNames
    /\ hook = "default"
    /\ file = <<>>
    /\ fragmentStart = NoMark
    /\ sinceMark = <<>>
    /\ emptyRead = FALSE
    /\ emitted = <<>>
    /\ viewerCalls = <<>>
    /\ lastCall = NoCall
    /\ lastResult = NoResult

(***************************************************************************)
(* initialize(shouldDoRemoteLogging); openFails is whether opening the log *)
(* file raises IOError.                                                    *)
(***************************************************************************)
Initialize(shouldDoRemoteLogging, openFails) ==
    /\ logHandler = "None"
    /\ IF shouldDoRemoteLogging
       THEN /\ ~openFails
            /\ logHandler' = "RemoteHandler"
            /\ UNCHANGED <<appArgs, rootLevel, file, emitted>>
       ELSE IF ShouldDisableLogging
       THEN /\ ~openFails
            /\ logHandler' = "NullHandler"
            /\ rootLevel' = OFF
            /\ UNCHANGED <<appArgs, file, emitted>>
       ELSE /\ IF openFails
               THEN /\ appArgs' = [appArgs EXCEPT !.logFileName = None]
                    /\ logHandler' = "NullHandler"
                    \* log.error runs before setLevel, under the threshold of the moment
                    /\ emitted' = IF IsEnabledFor(ERROR)
                                  THEN <<Record(ERROR, "Faile to open log file",
                                                "logHandler.initialize")>>
                                  ELSE <<>>
                    /\ UNCHANGED file
               ELSE /\ appArgs' = [appArgs EXCEPT !.logFileName =
                                       IF @ = None THEN "nvda.log" ELSE @]
                    /\ logHandler' = "FileHandler"
                    /\ file' = <<>>
                    /\ emitted' = <<>>
            /\ rootLevel' = StartLevel
    /\ hook' = "_threadExceptHook"
    /\ viewerCalls' = <<>>
    /\ lastCall' = [op |-> "initialize",
                    arg |-> [remote |-> shouldDoRemoteLogging, openFails |-> openFails]]
    /\ lastResult' = NoResult
    /\ UNCHANGED <<conf, fragmentStart, sinceMark, emptyRead>>

(* An allowed set that admits every registered level at or below OFF. *)
AllowedLevelsWithStandardOnes == {DEBUG, IO, DEBUGWARNING, INFO, WARNING, ERROR, OFF}

(* The levels the GUI offers, which setLogLevelFromConfig accepts. *)
AllowedLevels == {DEBUG, IO, DEBUGWARNING, INFO, OFF}

(***************************************************************************)
(* setLogLevelFromConfig()                                                  *)
(***************************************************************************)
SetLogLevelFromConfig ==
    /\ logHandler # "None"
    /\ IF IsLogLevelForced
       THEN UNCHANGED <<rootLevel, conf>> /\ LogSkip
       ELSE LET levelName == conf
                level == GetLevelName(levelName)
            IN  IF ~(level.isNumber /\ level.number \in AllowedLevels)
                THEN /\ IF IsEnabledFor(WARNING)
                        THEN LogEmit(WARNING, <<"invalid setting for logging level", levelName>>,
                                     "logHandler.setLogLevelFromConfig", FALSE)
                        ELSE LogSkip
                     /\ conf' = InfoName
                     /\ rootLevel' = INFO
                ELSE /\ LogSkip
                     /\ rootLevel' = level.number
                     /\ UNCHANGED conf
    /\ lastCall' = [op |-> "setLogLevelFromConfig", arg |-> conf]
    /\ lastResult' = NoResult
    /\ UNCHANGED <<appArgs, logHandler, hook, fragmentStart, emptyRead>>

(* The user (or a profile switch) changes the configured level name. *)
ConfigChange(name) ==
    /\ logHandler # "None"
    /\ conf # name
    /\ conf' = name
    /\ emitted' = <<>>
    /\ viewerCalls' = <<>>
    /\ lastCall' = [op |-> "configChange", arg |-> name]
    /\ lastResult' = NoResult
    /\ UNCHANGED <<appArgs, logHandler, rootLevel, hook, file, fragmentStart, sinceMark, emptyRead>>

OpenAttempted(remote) == ~remote /\ ~ShouldDisableLogging

DoInitialize ==
    \E remote \in BOOLEAN :
        \E openFails \in (IF OpenAttempted(remote) THEN BOOLEAN ELSE {FALSE}) :
            Initialize(remote, openFails)

DoConfigChange == \E name \in ConfNames : ConfigChange(name)

Next ==
    \/ DoInitialize
    \/ SetLogLevelFromConfig
    \/ DoConfigChange

Spec == Init /\ [][Next]_vars

(***************************************************************************)
(* The log file and the fragment tracker.                                  *)
(***************************************************************************)
(* The bytes a writer may put in the file: "a", CR, LF and the two bytes of
   the UTF-8 encoding of U+00E9. *)
Bytes == {97, 13, 10, 195, 169}

Chunks == UNION {[1 .. n -> Bytes] : n \in 1 .. MaxChunk}

(* open(..., "r", encoding="UTF-8").read() on bytes b from index i: strict
   UTF-8 decoding and universal newlines (CR LF and a lone CR read as LF). *)
RECURSIVE DecodeFrom(_, _, _)
DecodeFrom(b, i, acc) ==
    IF i > Len(b) THEN [ok |-> TRUE, text |-> acc]
    ELSE IF b[i] = 13
    THEN IF i < Len(b) /\ b[i + 1] = 10
         THEN DecodeFrom(b, i + 2, Append(acc, 10))
         ELSE DecodeFrom(b, i + 1, Append(acc, 10))
    ELSE IF b[i] = 195
    THEN IF i < Len(b) /\ b[i + 1] = 169
         THEN DecodeFrom(b, i + 2, Append(acc, 233))
         ELSE [ok |-> FALSE, text |-> <<>>]
    ELSE IF b[i] = 169
    THEN [ok |-> FALSE, text |-> <<>>]
    ELSE DecodeFrom(b, i + 1, Append(acc, b[i]))

Decode(b) == DecodeFrom(b, 1, <<>>)

(* f.seek(0, 0); f.tell() *)
StartOfFile == 0

(* f.seek(0, 2); f.tell() *)
EndOfFile == Len(file)

(* f.seek(offset); f.read() *)
ReadFrom(offset) == Decode(SubSeq(file, offset + 1, Len(file)))

(* Neither call opens the file unless all three hold. *)
FileInUse ==
    /\ ~appArgs.secure
    /\ appArgs.logFileName # None
    /\ logHandler = "FileHandler"

(* A mark that any read clears. *)
MarkClearedByAnyRead(fragment) == NoMark

(* The mark getFragment leaves after reading fragment. *)
MarkAfterRead(fragment) == IF fragment # <<>> THEN NoMark ELSE fragmentStart

Returned(kind, val) == [kind |-> kind, val |-> val]
(* An exception turned into the return value None. *)
RaisedAsNone(exc) == [kind |-> "none", val |-> None]

(* The call ends with exc propagating to its caller. *)
Raised(exc) == [kind |-> "raised", val |-> exc]

(* Logger.markFragmentStart(); ioFails is whether open, seek or tell raises. *)
MarkFragmentStart(ioFails) ==
    /\ logHandler # "None"
    /\ IF ~FileInUse
       THEN /\ ~ioFails
            /\ lastResult' = Returned("bool", FALSE)
            /\ UNCHANGED <<fragmentStart, sinceMark, emptyRead>>
       ELSE IF ioFails
       THEN /\ lastResult' = Raised("IOError")
            /\ UNCHANGED <<fragmentStart, sinceMark, emptyRead>>
       ELSE /\ fragmentStart' = EndOfFile
            /\ sinceMark' = <<>>
            /\ emptyRead' = FALSE
            /\ lastResult' = Returned("bool", TRUE)
    /\ emitted' = <<>>
    /\ viewerCalls' = <<>>
    /\ lastCall' = [op |-> "markFragmentStart", arg |-> [ioFails |-> ioFails]]
    /\ UNCHANGED <<appArgs, logHandler, rootLevel, conf, hook, file>>

(* Logger.getFragment(); ioFails is whether open, seek or read raises IOError. *)
GetFragment(ioFails) ==
    /\ logHandler # "None"
    /\ IF fragmentStart = NoMark \/ ~FileInUse
       THEN /\ ~ioFails
            /\ lastResult' = Returned("none", None)
            /\ UNCHANGED <<fragmentStart, emptyRead>>
       ELSE IF ioFails
       THEN /\ lastResult' = Raised("IOError")
            /\ UNCHANGED <<fragmentStart, emptyRead>>
       ELSE LET fragment == ReadFrom(fragmentStart)
            IN  IF ~fragment.ok
                THEN /\ lastResult' = Raised("UnicodeDecodeError")
                     /\ UNCHANGED <<fragmentStart, emptyRead>>
                ELSE /\ fragmentStart' = MarkAfterRead(fragment.text)
                     /\ emptyRead' = (emptyRead \/ fragment.text = <<>>)
                     /\ lastResult' = Returned("text", fragment.text)
    /\ emitted' = <<>>
    /\ viewerCalls' = <<>>
    /\ lastCall' = [op |-> "getFragment", arg |-> [ioFails |-> ioFails]]
    /\ UNCHANGED <<appArgs, logHandler, rootLevel, conf, hook, file, sinceMark>>

(* An independent writer appends bytes to the log file. *)
AppendByWriter(bytes) ==
    /\ logHandler = "FileHandler"
    /\ Len(file) + Len(bytes) <= MaxFileLen
    /\ file' = file \o bytes
    /\ sinceMark' = sinceMark \o bytes
    /\ emitted' = <<>>
    /\ viewerCalls' = <<>>
    /\ lastCall' = [op |-> "append", arg |-> None]
    /\ lastResult' = NoResult
    /\ UNCHANGED <<appArgs, logHandler, rootLevel, conf, hook, fragmentStart, emptyRead>>

DoMarkFragmentStart ==
    \E ioFails \in (IF FileInUse THEN BOOLEAN ELSE {FALSE}) : MarkFragmentStart(ioFails)

DoGetFragment ==
    \E ioFails \in (IF FileInUse /\ fragmentStart # NoMark THEN BOOLEAN ELSE {FALSE}) :
        GetFragment(ioFails)

DoAppendByWriter == \E bytes \in Chunks : AppendByWriter(bytes)

DoLogCall ==
    \E level \in {DEBUGWARNING, ERROR, OFF} : \E activateLogViewer \in BOOLEAN :
        LogCall(level, activateLogViewer)

FragmentInit == Init /\ conf = "INFO"

FragmentNext ==
    \/ DoInitialize
    \/ DoMarkFragmentStart
    \/ DoGetFragment
    \/ DoAppendByWriter
    \/ DoLogCall

SpecFragment == FragmentInit /\ [][FragmentNext]_vars

(***************************************************************************)
(* Logger.exception, the thread exception hook, io and debugWarning.       *)
(***************************************************************************)
(* The exception classes told apart, each with the classes it is an instance
   of. FileNotFoundError stands for any subclass of OSError (WindowsError),
   Exception for a class the classifier does not know. *)
ExcTypes == {"WindowsError", "FileNotFoundError", "COMError", "CallCancelled",
             "SystemExit", "Exception"}

(* HRESULT_FROM_WIN32(RPC_S_SERVER_UNAVAILABLE), 0x800706BA. *)
HRESULT_SERVER_UNAVAILABLE == -2147023174

(* The winerror / hresult values tried: every named code, the two other
   values whose low word is RPC_S_SERVER_UNAVAILABLE, and two unlisted codes. *)
ExcCodes ==
    {ERROR_INVALID_WINDOW_HANDLE, ERROR_TIMEOUT, RPC_S_SERVER_UNAVAILABLE,
     RPC_S_CALL_FAILED_DNE, EPT_S_NOT_REGISTERED, RPC_E_CALL_CANCELED,
     E_ACCESSDENIED, CO_E_OBJNOTCONNECTED, EVENT_E_ALL_SUBSCRIBERS_FAILED,
     RPC_E_CALL_REJECTED, RPC_E_DISCONNECTED,
     HRESULT_SERVER_UNAVAILABLE, 65536 + RPC_S_SERVER_UNAVAILABLE, 2, 0}

Exceptions == [type : ExcTypes, code : ExcCodes]

IsInstance(exc, cls) ==
    \/ exc.type = cls
    \/ exc.type = "FileNotFoundError" /\ cls = "WindowsError"

(* hresult & 0xFFFF on a Python int *)
LowWord(hresult) == hresult % 65536

(* A classifier that looks at the code and not at the class of the exception. *)
IsExpectedByCodeAlone(exc) ==
    \/ exc.code \in {ERROR_INVALID_WINDOW_HANDLE, ERROR_TIMEOUT, RPC_S_SERVER_UNAVAILABLE,
                     RPC_S_CALL_FAILED_DNE, EPT_S_NOT_REGISTERED, RPC_E_CALL_CANCELED}
    \/ exc.code \in {E_ACCESSDENIED, CO_E_OBJNOTCONNECTED, EVENT_E_ALL_SUBSCRIBERS_FAILED,
                     RPC_E_CALL_REJECTED, RPC_E_CALL_CANCELED, RPC_E_DISCONNECTED}
    \/ LowWord(exc.code) = RPC_S_SERVER_UNAVAILABLE
    \/ IsInstance(exc, "CallCancelled")

(* The condition under which exception() logs at DEBUGWARNING. *)
IsExpected(exc) ==
    \/ /\ IsInstance(exc, "WindowsError")
       /\ exc.code \in {ERROR_INVALID_WINDOW_HANDLE, ERROR_TIMEOUT, RPC_S_SERVER_UNAVAILABLE,
                        RPC_S_CALL_FAILED_DNE, EPT_S_NOT_REGISTERED, RPC_E_CALL_CANCELED}
    \/ /\ IsInstance(exc, "COMError")
       /\ \/ exc.code \in {E_ACCESSDENIED, CO_E_OBJNOTCONNECTED,
                           EVENT_E_ALL_SUBSCRIBERS_FAILED, RPC_E_CALL_REJECTED,
                           RPC_E_CALL_CANCELED, RPC_E_DISCONNECTED}
          \/ LowWord(exc.code) = RPC_S_SERVER_UNAVAILABLE
    \/ IsInstance(exc, "CallCancelled")

ExceptionLevel(exc) == IF IsExpected(exc) THEN DEBUGWARNING ELSE ERROR

(* An exception() that logs whatever the threshold. *)
LogExceptionUngated(msg, exc, codepath) ==
    LogEmit(ExceptionLevel(exc), msg, codepath, FALSE)

(* The body of Logger.exception(msg, exc_info), called from codepath. *)
LogException(msg, exc, codepath) ==
    LET level == ExceptionLevel(exc)
    IN  IF ~IsEnabledFor(level)
        THEN LogSkip
        ELSE LogEmit(level, msg, codepath, FALSE)

(* log.exception(exc_info=exc) *)
Exception(exc) ==
    /\ logHandler # "None"
    /\ LogException("", exc, "caller")
    /\ lastCall' = [op |-> "exception", arg |-> exc]
    /\ lastResult' = NoResult
    /\ UNCHANGED <<appArgs, logHandler, rootLevel, conf, hook, fragmentStart, emptyRead>>

(* Threads whose uncaught exception reaches the hook; None: the thread object is gone. *)
Threads == {None, "Thread-1"}

(* A hook that lets no exception pass as an exit signal. *)
IsExitSignalNever(exc) == FALSE

(* excInfoObj.exc_type is SystemExit *)
IsExitSignal(exc) == exc.type = "SystemExit"

ThreadMessage(thread) ==
    IF thread # None THEN <<"Exception in thread", thread>> ELSE <<>>

(* threading.excepthook, once initialize has installed _threadExceptHook, for
   an uncaught exception exc in thread. *)
ThreadExceptHook(exc, thread) ==
    /\ hook = "_threadExceptHook"
    /\ IF IsExitSignal(exc)
       THEN LogSkip
       ELSE LogException(ThreadMessage(thread), exc, "logHandler._threadExceptHook")
    /\ lastCall' = [op |-> "threadExceptHook", arg |-> [exc |-> exc, thread |-> thread]]
    /\ lastResult' = NoResult
    /\ UNCHANGED <<appArgs, logHandler, rootLevel, conf, hook, fragmentStart, emptyRead>>

DoException == \E exc \in Exceptions : Exception(exc)

DoThreadExceptHook ==
    \E exc \in Exceptions : \E thread \in Threads : ThreadExceptHook(exc, thread)

ExceptionInit == Init /\ conf = "INFO"

ExceptionNext ==
    \/ DoInitialize
    \/ DoException
    \/ DoThreadExceptHook

SpecException == ExceptionInit /\ [][ExceptionNext]_vars

(***************************************************************************)
(* The severity gate.                                                      *)
(***************************************************************************)
Levels == {DEBUG, IO, DEBUGWARNING, INFO, WARNING, ERROR, CRITICAL, OFF}

(* log.isEnabledFor(level) *)
IsEnabledForCall(level) ==
    /\ logHandler # "None"
    /\ lastResult' = Returned("bool", IsEnabledFor(level))
    /\ LogSkip
    /\ lastCall' = [op |-> "isEnabledFor", arg |-> [level |-> level]]
    /\ UNCHANGED <<appArgs, logHandler, rootLevel, conf, hook, fragmentStart, emptyRead>>

(* A call that logs at level if the gate admits level. *)
GatedLog(op, level) ==
    /\ logHandler # "None"
    /\ IF ~IsEnabledFor(level)
       THEN LogSkip
       ELSE LogEmit(level, "msg", "caller", FALSE)
    /\ lastCall' = [op |-> op, arg |-> [level |-> level]]
    /\ lastResult' = NoResult
    /\ UNCHANGED <<appArgs, logHandler, rootLevel, conf, hook, fragmentStart, emptyRead>>

(* log.debugWarning(msg) *)
DebugWarning == GatedLog("debugWarning", DEBUGWARNING)

(* log.io(msg) *)
Io == GatedLog("io", IO)

DoIsEnabledFor == \E level \in Levels : IsEnabledForCall(level)

DoLogAtLevel == \E level \in Levels : LogCall(level, FALSE)

(* log.root.setLevel(level) *)
SetLevel(level) ==
    /\ logHandler # "None"
    /\ rootLevel' = level
    /\ LogSkip
    /\ lastCall' = [op |-> "setLevel", arg |-> [level |-> level]]
    /\ lastResult' = NoResult
    /\ UNCHANGED <<appArgs, logHandler, conf, hook, fragmentStart, emptyRead>>

DoSetLevel == \E level \in Levels : SetLevel(level)

GateInit ==
    /\ Init
    /\ conf = "INFO"
    /\ ~appArgs.secure /\ ~appArgs.debugLogging /\ ~appArgs.noLogging
    /\ appArgs.logLevel = 0

GateNext ==
    \/ DoInitialize
    \/ DoSetLevel
    \/ DoIsEnabledFor
    \/ DebugWarning
    \/ Io
    \/ DoLogAtLevel

SpecGate == GateInit /\ [][GateNext]_vars

(***************************************************************************)
(* getCodePath.                                                            *)
(***************************************************************************)
(* The classes of the frames tried: Derived(Base), Other, int (a type that
   defines nothing of interest), with object at the end of every
   method-resolution order and type as the class of every class. *)
UserClasses == {"Base", "Derived", "Other"}

Mro(cls) ==
    CASE cls = "Derived" -> <<"Derived", "Base", "object">>
      [] cls = "object" -> <<"object">>
      [] OTHER -> <<cls, "object">>

(* What a class's own __dict__ may hold under a name. code and fset are the
   identities of code objects; 0 is None (a property without that accessor). *)
Member(kind, code, fset) == [kind |-> kind, code |-> code, fset |-> fset]
NoMember == Member("none", 0, 0)
Members ==
    {NoMember,
     Member("function", 1, 0), Member("function", 2, 0),
     Member("classmethod", 1, 0),
     Member("staticmethod", 1, 0),
     Member("property", 1, 2), Member("property", 2, 1), Member("property", 2, 0),
     Member("falsy", 0, 0)}

(* The first arguments tried: an instance of a class, or a class itself. *)
Objects ==
    [isType : {FALSE}, name : {"obj"}, type : UserClasses \cup {"int"}]
        \cup [isType : {TRUE}, name : UserClasses, type : {"type"}]

(* co_filename as isPathExternalToNVDA reads it. *)
FileNames ==
    [angle : {TRUE}, abs : {FALSE}, underCode : {FALSE}, underConfig : {FALSE}]
        \cup [angle : {FALSE}, abs : BOOLEAN, underCode : BOOLEAN, underConfig : BOOLEAN]

(* The frames tried. The code object of the frame is 1, its co_name is
   co_name; dicts gives, for each user class, what its __dict__ holds under
   the name "f" (no class holds anything under another name). *)
Frames ==
    [fn : FileNames, hasName : BOOLEAN, co_name : {"f", "g", "<lambda>"},
     co_argcount : {0, 1}, arg0 : Objects, dicts : [UserClasses -> Members]]

FrameCode == 1

(* cls.__dict__.get(funcName) *)
DictGet(f, cls, funcName) ==
    IF cls \in UserClasses /\ funcName = "f" THEN f.dicts[cls] ELSE NoMember

(* hasattr(topCls, funcName) *)
HasAttr(f, topCls, funcName) ==
    \E i \in 1 .. Len(Mro(topCls)) : DictGet(f, Mro(topCls)[i], funcName).kind # "none"

IsPathExternalToNVDA(path) ==
    \/ ~path.angle /\ path.abs /\ ~path.underCode
    \/ path.underConfig

(* The tests of the loop body on one member of a class's __dict__. *)
MemberIsFrame(member) ==
    \/ member.kind = "function" /\ member.code = FrameCode
    \/ member.kind = "classmethod" /\ member.code = FrameCode
    \/ /\ member.kind = "property"
       /\ (member.code = FrameCode \/ member.fset = FrameCode)

(* The loop without its break: the last class whose member passes the tests. *)
RECURSIVE LastClassNameFrom(_, _, _, _)
LastClassNameFrom(f, mro, i, funcName) ==
    IF i > Len(mro) THEN ""
    ELSE LET rest == LastClassNameFrom(f, mro, i + 1, funcName)
         IN  IF rest # "" THEN rest
             ELSE IF MemberIsFrame(DictGet(f, mro[i], funcName)) THEN mro[i]
             ELSE ""

(* The loop over topCls.__mro__ from index i: the name of the first class
   whose member passes the tests, "" when none does. *)
RECURSIVE ClassNameFrom(_, _, _, _)
ClassNameFrom(f, mro, i, funcName) ==
    IF i > Len(mro) THEN ""
    ELSE LET member == DictGet(f, mro[i], funcName)
         IN  IF member.kind \in {"none", "falsy"}
             THEN ClassNameFrom(f, mro, i + 1, funcName)
             ELSE IF MemberIsFrame(member) THEN mro[i]
             ELSE ClassNameFrom(f, mro, i + 1, funcName)

(* topCls = arg0 if isinstance(arg0, type) else type(arg0) *)
TopCls(arg0) == IF arg0.isType THEN arg0.name ELSE arg0.type

FuncName(f) == IF f.co_name = "<lambda>" THEN "" ELSE f.co_name

(* path: "external:" or "", then f_globals["__name__"] or the file name. *)
ModulePath(f) ==
    [external |-> IsPathExternalToNVDA(f.fn),
     name |-> IF f.hasName THEN "module" ELSE "file.py"]

ClassName(f) ==
    IF f.co_argcount = 0 THEN ""
    ELSE LET topCls == TopCls(f.arg0)
         IN  IF HasAttr(f, topCls, FuncName(f))
             THEN ClassNameFrom(f, Mro(topCls), 1, FuncName(f))
             ELSE ""

(* ".".join(x for x in (path, className, funcName) if x), as its segments *)
JoinNonEmpty(path, className, funcName) ==
    <<path>> \o (IF className # "" THEN <<className>> ELSE <<>>)
             \o (IF funcName # "" THEN <<funcName>> ELSE <<>>)

(* getCodePath(f), for the frame f at hand. *)
GetCodePath(f) ==
    /\ lastResult' = Returned("codepath", JoinNonEmpty(ModulePath(f), ClassName(f), FuncName(f)))
    /\ lastCall' = [op |-> "getCodePath", arg |-> f]
    /\ UNCHANGED <<appArgs, logHandler, rootLevel, conf, hook, file, fragmentStart,
                   sinceMark, emptyRead, emitted, viewerCalls>>

DoGetCodePath == lastCall.op = "frame" /\ GetCodePath(lastCall.arg)

(* A log call is under way in some frame of Frames. *)
CodePathInit ==
    /\ appArgs = [secure |-> FALSE, debugLogging |-> FALSE, logLevel |-> 0,
                  noLogging |-> FALSE, logFileName |-> None]
    /\ logHandler = "None"
    /\ rootLevel = WARNING
    /\ conf = "INFO"
    /\ hook = "default"
    /\ file = <<>>
    /\ fragmentStart = NoMark
    /\ sinceMark = <<>>
    /\ emptyRead = FALSE
    /\ emitted = <<>>
    /\ viewerCalls = <<>>
    /\ lastCall \in [op : {"frame"}, arg : Frames]
    /\ lastResult = NoResult

CodePathNext == DoGetCodePath

SpecCodePath == CodePathInit /\ [][CodePathNext]_vars

(***************************************************************************)
(* Fragment tracker and secure mode: C2, C3, C4 (specification SpecFragment) *)
(***************************************************************************)
(* A getFragment step that opens and reads the file of a set mark. *)
ReadingCall ==
    /\ lastCall'.op = "getFragment"
    /\ ~lastCall'.arg.ioFails
    /\ FileInUse
    /\ fragmentStart # NoMark

(* A second getFragment, with no new mark since the first cleared it. *)
UnmarkedCall == lastCall'.op = "getFragment" /\ fragmentStart = NoMark

(* C2 as claimed: file sink, secure mode off: after a successful mark and N > 0
   appended bytes, getFragment returns exactly those N bytes and clears the
   mark; a further getFragment without a new mark returns none. *)
C2_Original ==
    [][/\ (ReadingCall /\ sinceMark # <<>>) =>
              /\ lastResult'.kind = "text"
              /\ lastResult'.val = sinceMark
              /\ fragmentStart' = NoMark
       /\ UnmarkedCall => lastResult'.kind = "none"]_vars

(* C2 amended: getFragment returns the text the N appended bytes decode to
   (UTF-8, with CR LF and a lone CR read as LF), nothing from before the mark
   and nothing missing after it, and clears the mark; when the appended bytes
   are not valid UTF-8 the call raises UnicodeDecodeError and keeps the mark;
   a further getFragment without a new mark returns none. *)
C2_FragmentRoundTrip ==
    [][/\ (ReadingCall /\ sinceMark # <<>>) =>
              IF Decode(sinceMark).ok
              THEN /\ lastResult'.kind = "text"
                   /\ lastResult'.val = Decode(sinceMark).text
                   /\ lastResult'.val # <<>>
                   /\ fragmentStart' = NoMark
              ELSE /\ lastResult' = Raised("UnicodeDecodeError")
                   /\ fragmentStart' = fragmentStart
       /\ UnmarkedCall => lastResult'.kind = "none"]_vars

(* C2 witness: bytes were in the file before the mark, a CR LF line ending was
   appended after it, and getFragment returned its text and cleared the mark. *)
C2_Witness ==
    /\ lastCall.op = "getFragment"
    /\ lastResult.kind = "text"
    /\ lastResult.val = <<10>>
    /\ sinceMark = <<13, 10>>
    /\ Len(file) > Len(sinceMark)
    /\ fragmentStart = NoMark

(* C3: getFragment changes the mark only by clearing it, and only in a call
   that read a non-empty text; a call that reads nothing keeps the offset, and
   whatever a call returns is the text of everything appended since the mark
   was set, however many empty reads came between. *)
C3_MarkClearedOnlyByNonEmptyRead ==
    [][lastCall'.op = "getFragment" =>
          /\ \/ fragmentStart' = fragmentStart
             \/ /\ fragmentStart' = NoMark
                /\ lastResult'.kind = "text"
                /\ lastResult'.val # <<>>
          /\ (lastResult'.kind = "text" /\ lastResult'.val = <<>>) =>
                 fragmentStart' = fragmentStart /\ fragmentStart' # NoMark
          /\ lastResult'.kind = "text" =>
                 /\ Len(file) = fragmentStart + Len(sinceMark)
                 /\ lastResult'.val = Decode(sinceMark).text]_vars

(* C3 witness: a getFragment read nothing and kept the mark, bytes were then
   appended, and a later getFragment returned them and cleared the mark. *)
C3_Witness ==
    /\ lastCall.op = "getFragment"
    /\ emptyRead
    /\ lastResult.kind = "text"
    /\ lastResult.val # <<>>
    /\ fragmentStart = NoMark

(* C4: in secure mode, whatever the other flags, the file name and the sink,
   markFragmentStart returns false, the mark is never set, getFragment returns
   none, and no call reaches the live viewer. *)
C4_SecureMode ==
    appArgs.secure =>
        /\ fragmentStart = NoMark
        /\ viewerCalls = <<>>
        /\ lastCall.op = "markFragmentStart" => lastResult = Returned("bool", FALSE)
        /\ lastCall.op = "getFragment" => lastResult = Returned("none", None)

(* C4 witness: secure mode, a log call asked for the viewer, its record was
   emitted and the viewer was not called. *)
C4_Witness ==
    /\ appArgs.secure
    /\ lastCall.op = "log"
    /\ lastCall.arg.activateLogViewer
    /\ emitted # <<>>
    /\ viewerCalls = <<>>

(***************************************************************************)
(* Exception classifier and thread hook: C6, C7 (specification SpecException) *)
(***************************************************************************)
(* The five platform codes the claim enumerates: invalid handle, operation
   timeout, RPC server unavailable, RPC endpoint not registered, RPC call
   canceled. *)
ClaimedPlatformCodes == {1400, 1460, 1722, 1753, -2147418110}

(* The six COM result codes: access denied, object not connected, all
   subscribers failed, call rejected, call canceled, disconnected. *)
ClaimedComCodes ==
    {-2147024891, -2147220995, -2147220991, -2147418111, -2147418110, -2147417848}

IsPlatformError(exc) == exc.type \in {"WindowsError", "FileNotFoundError"}

(* The classification as the claim words it, over the given platform codes. *)
ClaimedBenign(exc, platformCodes) ==
    \/ IsPlatformError(exc) /\ exc.code \in platformCodes
    \/ /\ exc.type = "COMError"
       /\ (exc.code \in ClaimedComCodes \/ (exc.code - 1722) % 65536 = 0)
    \/ exc.type = "CallCancelled"

ClaimedLevelOf(exc, platformCodes) ==
    IF ClaimedBenign(exc, platformCodes) THEN DEBUGWARNING ELSE ERROR

(* What an exception() call that chose level shows: one record at that level
   when the threshold admits it, none otherwise. *)
ShowsLevel(level) ==
    IF level >= rootLevel
    THEN Len(emitted) = 1 /\ emitted[1].level = level
    ELSE emitted = <<>>

(* C6 as claimed: exception() chooses DEBUGWARNING exactly for a platform error
   with one of the five codes, a COM error with one of the six codes or with low
   word RPC-server-unavailable, or CallCancelled; ERROR for every other pair. *)
C6_Original ==
    lastCall.op = "exception" =>
        ShowsLevel(ClaimedLevelOf(lastCall.arg, ClaimedPlatformCodes))

(* C6 amended: the platform codes are six: the five claimed and
   RPC_S_CALL_FAILED_DNE (1727, the call failed and did not execute). *)
C6_Classifier ==
    lastCall.op = "exception" =>
        ShowsLevel(ClaimedLevelOf(lastCall.arg, ClaimedPlatformCodes \cup {1727}))

(* C6 witness: a COM error whose result code is in no list but whose low word
   is RPC-server-unavailable was logged at DEBUGWARNING. *)
C6_Witness ==
    /\ lastCall.op = "exception"
    /\ lastCall.arg = [type |-> "COMError", code |-> HRESULT_SERVER_UNAVAILABLE]
    /\ Len(emitted) = 1
    /\ emitted[1].level = DEBUGWARNING

NamesThread(rec, thread) == rec.msg = <<"Exception in thread", thread>>

(* C7 as claimed: with the hooks installed, an uncaught exception in a worker
   thread that is not SystemExit yields exactly one ERROR record naming the
   thread, whatever its type and code; SystemExit yields none. Stated for the
   calls most favourable to the claim: the thread object is known and the
   threshold admits ERROR. *)
C7_Original ==
    (/\ lastCall.op = "threadExceptHook"
     /\ lastCall.arg.thread # None
     /\ rootLevel <= ERROR) =>
        IF lastCall.arg.exc.type = "SystemExit"
        THEN emitted = <<>>
        ELSE /\ Len(emitted) = 1
             /\ emitted[1].level = ERROR
             /\ NamesThread(emitted[1], lastCall.arg.thread)

(* C7 amended: the hook passes every exception but SystemExit to exception():
   one ERROR record when the exception is not classified benign and the
   threshold admits ERROR, one DEBUGWARNING record when it is classified benign
   and the threshold admits DEBUGWARNING, no record otherwise; the record's
   message names the thread when the thread object is known and is empty when
   it is not. SystemExit yields no record. *)
C7_ThreadHook ==
    lastCall.op = "threadExceptHook" =>
        LET exc == lastCall.arg.exc
            thread == lastCall.arg.thread
        IN  IF exc.type = "SystemExit"
            THEN emitted = <<>>
            ELSE /\ ShowsLevel(ClaimedLevelOf(exc, ClaimedPlatformCodes \cup {1727}))
                 /\ emitted # <<>> =>
                        IF thread # None THEN NamesThread(emitted[1], thread)
                        ELSE emitted[1].msg = <<>>

(* C7 witness: an exception of an unknown class in Thread-1 gave one ERROR
   record naming Thread-1. *)
C7_Witness ==
    /\ lastCall.op = "threadExceptHook"
    /\ lastCall.arg.exc.type = "Exception"
    /\ lastCall.arg.thread = "Thread-1"
    /\ Len(emitted) = 1
    /\ emitted[1].level = ERROR
    /\ NamesThread(emitted[1], "Thread-1")

(***************************************************************************)
(* Severity order: C8 (specification SpecGate)                             *)
(***************************************************************************)
ClaimedOrder == <<IO, DEBUG, DEBUGWARNING, INFO, WARNING, ERROR, CRITICAL, OFF>>
NumericOrder == <<DEBUG, IO, DEBUGWARNING, INFO, WARNING, ERROR, CRITICAL, OFF>>

Position(order, level) == CHOOSE i \in 1 .. Len(order) : order[i] = level

GateCall == lastCall.op \in {"isEnabledFor", "io", "debugWarning", "log"}

(* What a gate call shows of whether its level was enabled. *)
ShowsEnabled(enabled) ==
    IF lastCall.op = "isEnabledFor"
    THEN lastResult = Returned("bool", enabled)
    ELSE (emitted # <<>>) <=> enabled

(* The gate follows order: a level before the threshold is not enabled, a
   level after it is. *)
GateFollows(order) ==
    GateCall =>
        LET level == Position(order, lastCall.arg.level)
            threshold == Position(order, rootLevel)
        IN  /\ level < threshold => ShowsEnabled(FALSE)
            /\ threshold < level => ShowsEnabled(TRUE)

(* C8 as claimed, in what it says of the gate: it follows the order IO < DEBUG
   < DEBUGWARNING < INFO < WARNING < ERROR < CRITICAL < OFF. *)
C8_Original == GateFollows(ClaimedOrder)

(* C8 amended: the order is DEBUG < IO < DEBUGWARNING < INFO < WARNING < ERROR
   < CRITICAL < OFF (DEBUG is 10 and IO is 12), and the gate follows it. *)
C8_NumericOrder ==
    /\ \A i \in 1 .. Len(NumericOrder) - 1 : NumericOrder[i] < NumericOrder[i + 1]
    /\ GateFollows(NumericOrder)

(* C8 witness: with the threshold at IO, io() emitted its record. *)
C8_Witness ==
    /\ lastCall.op = "io"
    /\ rootLevel = IO
    /\ Len(emitted) = 1
    /\ emitted[1].level = IO

(***************************************************************************)
(* Call-site resolution: C10 (specification SpecCodePath)                  *)
(***************************************************************************)
(* The class whose method-resolution order is searched: the first argument
   itself when it is a class (a class method's cls), else its type. *)
ReceiverClass(f) == IF f.arg0.isType THEN f.arg0.name ELSE f.arg0.type

(* cls's own definition of the frame's function name is the frame's code: a
   plain function, a class method, or a property's getter or setter. *)
DefinesFrame(f, cls) ==
    /\ cls \in UserClasses
    /\ f.co_name = "f"
    /\ LET m == f.dicts[cls]
       IN  \/ m.kind \in {"function", "classmethod"} /\ m.code = 1
           \/ m.kind = "property" /\ 1 \in {m.code, m.fset}

(* The positions in the receiver's method-resolution order that define it. *)
DefiningPositions(f) ==
    IF f.co_argcount = 0 THEN {}
    ELSE {i \in 1 .. Len(Mro(ReceiverClass(f))) : DefinesFrame(f, Mro(ReceiverClass(f))[i])}

(* C10: a frame of a named function whose first argument's class (the argument
   itself when it is a class) has in its method-resolution order a class whose
   own definition of the function's name is the frame's code resolves to
   module.Class.function with Class the first such class; a frame with no such
   class (a free function, a first argument of an unrelated type, a type that
   defines another function under that name) resolves to module.function.
   module is the module path as getCodePath builds it, "external:" flag
   included. *)
C10_CodePath ==
    (lastCall.op = "getCodePath" /\ lastCall.arg.co_name # "<lambda>") =>
        LET f == lastCall.arg
            at == DefiningPositions(f)
            first == CHOOSE i \in at : \A j \in at : i <= j
        IN  /\ lastResult.kind = "codepath"
            /\ lastResult.val =
                   IF at # {}
                   THEN <<ModulePath(f), Mro(ReceiverClass(f))[first], f.co_name>>
                   ELSE <<ModulePath(f), f.co_name>>

(* C10 witness: a class method, called on Derived, that both Derived and Base
   hold under the name (Derived aliases Base's) resolved to Derived. *)
C10_Witness ==
    /\ lastCall.op = "getCodePath"
    /\ lastCall.arg.arg0 = [isType |-> TRUE, name |-> "Derived", type |-> "type"]
    /\ lastCall.arg.dicts["Derived"] = Member("classmethod", 1, 0)
    /\ lastCall.arg.dicts["Base"] = Member("classmethod", 1, 0)
    /\ lastResult.val = <<ModulePath(lastCall.arg), "Derived", "f">>

(***************************************************************************)
(* Level policy: C1, C5, C9 (specification Spec)                           *)
(***************************************************************************)
Initialized == logHandler # "None"

(* A forced condition, in the words of the launch flags. *)
ForcedAtStartup ==
    appArgs.secure \/ appArgs.debugLogging \/ appArgs.logLevel # 0 \/ appArgs.noLogging

(* C1: once a forced condition holds at startup, no step after initialize changes
   the root threshold, and a setLogLevelFromConfig call, whatever name the
   configuration holds, leaves the configuration value as it was and produces no
   record. *)
C1_ForcedIgnoresConfig ==
    [][(Initialized /\ ForcedAtStartup) =>
          /\ rootLevel' = rootLevel
          /\ (lastCall'.op = "setLogLevelFromConfig" => conf' = conf /\ emitted' = <<>>)]_vars

(* C1 witness: a forced start (--no-logging alone), the configuration holds an
   unrecognized name, setLogLevelFromConfig has run and the threshold is still OFF. *)
C1_Witness ==
    /\ lastCall.op = "setLogLevelFromConfig"
    /\ appArgs.noLogging /\ ~appArgs.secure /\ ~appArgs.debugLogging /\ appArgs.logLevel = 0
    /\ conf = "bogus"
    /\ rootLevel = OFF

LocalInitializeDone == lastCall.op = "initialize" /\ ~lastCall.arg.remote

(* The flag condition under which the claim says logging is disabled. *)
DisableRequested ==
    appArgs.secure \/ (appArgs.noLogging /\ ~appArgs.debugLogging /\ appArgs.logLevel = 0)

LoggingDisabled == logHandler = "NullHandler" /\ rootLevel = OFF

ExpectedStartLevel ==
    IF appArgs.debugLogging THEN DEBUG
    ELSE IF appArgs.logLevel > 0 THEN appArgs.logLevel
    ELSE INFO

(* C5 as claimed: after local initialization, discard sink and threshold OFF
   exactly when secure, or noLogging with neither debugLogging nor a non-zero
   logLevel; otherwise the threshold is DEBUG / the positive logLevel / INFO. *)
C5_Original ==
    LocalInitializeDone =>
        /\ LoggingDisabled <=> DisableRequested
        /\ ~DisableRequested => rootLevel = ExpectedStartLevel

(* C5 amended: as claimed, except that discard sink and threshold OFF also result
   when the log file cannot be opened while the explicit logLevel is OFF (100)
   and debugLogging is not set. *)
C5_DisableAndStartLevel ==
    LocalInitializeDone =>
        /\ LoggingDisabled <=>
              \/ DisableRequested
              \/ (lastCall.arg.openFails /\ ~appArgs.debugLogging /\ appArgs.logLevel = OFF)
        /\ ~DisableRequested => rootLevel = ExpectedStartLevel

(* C5 witness: --no-logging overridden by --debug-logging: a file sink at DEBUG. *)
C5_Witness ==
    /\ LocalInitializeDone
    /\ appArgs.noLogging /\ appArgs.debugLogging /\ ~appArgs.secure
    /\ logHandler = "FileHandler"
    /\ rootLevel = DEBUG

(* The five names the claim allows, and the level each names. *)
ClaimedNames == {"IO", "DEBUG", "DEBUGWARNING", "INFO", "OFF"}
ClaimedLevel(name) ==
    CASE name = "IO" -> IO
      [] name = "DEBUG" -> DEBUG
      [] name = "DEBUGWARNING" -> DEBUGWARNING
      [] name = "INFO" -> INFO
      [] name = "OFF" -> OFF

IsWarningRecord(recs) == Len(recs) = 1 /\ recs[1].level = WARNING

ConfigurableCall == lastCall'.op = "setLogLevelFromConfig" /\ ~ForcedAtStartup

(* What C9 says of the threshold and of the configuration value. *)
C9_LevelAndConf ==
    /\ IF conf \in ClaimedNames
       THEN rootLevel' = ClaimedLevel(conf) /\ conf' = conf
       ELSE rootLevel' = INFO /\ conf' = "INFO"
    /\ conf' \in ClaimedNames
    /\ rootLevel' = ClaimedLevel(conf')

(* C9 as claimed: in the configurable state an allowed name sets the threshold
   and keeps the configuration; any other name logs a warning, sets INFO and
   rewrites the configuration to "INFO". *)
C9_Original ==
    [][ConfigurableCall =>
          /\ C9_LevelAndConf
          /\ IF conf \in ClaimedNames THEN emitted' = <<>> ELSE IsWarningRecord(emitted')]_vars

(* C9 amended: as claimed, except that the warning is a WARNING record only when
   the threshold before the call admits WARNING; from a threshold of OFF the call
   repairs the level and the configuration without any record. *)
C9_RepairOnRead ==
    [][ConfigurableCall =>
          /\ C9_LevelAndConf
          /\ IF conf \in ClaimedNames THEN emitted' = <<>>
             ELSE IF rootLevel <= WARNING THEN IsWarningRecord(emitted')
             ELSE emitted' = <<>>]_vars

(* C9 witness: the configuration named the real level WARNING; the call warned,
   set INFO and rewrote the configuration. *)
C9_Witness ==
    /\ lastCall.op = "setLogLevelFromConfig"
    /\ ~ForcedAtStartup
    /\ lastCall.arg = "WARNING"
    /\ conf = "INFO"
    /\ rootLevel = INFO
    /\ IsWarningRecord(emitted)

(***************************************************************************)
(* Classified exceptions and the threshold: C11 (specification SpecException) *)
(***************************************************************************)
(* An exception() call on an exception the classifier of exception() downgrades. *)
BenignCall ==
    /\ lastCall.op = "exception"
    /\ ClaimedBenign(lastCall.arg, ClaimedPlatformCodes \cup {1727})

(* C11 as claimed: a classified exception passed to exception() gives one
   DEBUGWARNING record at every threshold other than OFF. *)
C11_Original ==
    (BenignCall /\ rootLevel # OFF) =>
        /\ Len(emitted) = 1
        /\ emitted[1].level = DEBUGWARNING

(* C11 amended: a classified exception passed to exception() gives one
   DEBUGWARNING record when the threshold is DEBUG, IO or DEBUGWARNING, and no
   record at all when it is INFO or higher. *)
C11_DowngradedThenGated ==
    BenignCall =>
        IF rootLevel \in {DEBUG, IO, DEBUGWARNING}
        THEN /\ Len(emitted) = 1
             /\ emitted[1].level = DEBUGWARNING
        ELSE /\ rootLevel >= INFO
             /\ emitted = <<>>

(* C11 witness: at threshold DEBUGWARNING a platform error with the
   invalid-window-handle code was logged as one DEBUGWARNING record. *)
C11_Witness ==
    /\ lastCall.op = "exception"
    /\ lastCall.arg = [type |-> "WindowsError", code |-> 1400]
    /\ rootLevel = DEBUGWARNING
    /\ Len(emitted) = 1
    /\ emitted[1].level = DEBUGWARNING

(***************************************************************************)
(* I/O errors in the fragment tracker: C12 (specification SpecFragment)    *)
(***************************************************************************)
(* A markFragmentStart or getFragment step whose open or read fails. *)
FailingFileCall ==
    /\ lastCall'.op \in {"markFragmentStart", "getFragment"}
    /\ lastCall'.arg.ioFails

(* C12 as claimed: when opening or reading the file fails, markFragmentStart
   returns false and getFragment returns none, neither raises, and the mark is
   as it was before the call. *)
C12_Original ==
    [][FailingFileCall =>
          /\ lastCall'.op = "markFragmentStart" =>
                 lastResult' = [kind |-> "bool", val |-> FALSE]
          /\ lastCall'.op = "getFragment" =>
                 lastResult' = [kind |-> "none", val |-> None]
          /\ fragmentStart' = fragmentStart]_vars

(* C12 amended: when opening or reading the file fails, the I/O error
   propagates from markFragmentStart and from getFragment to the caller; the
   mark and the file are as they were before the call. The calls return their
   failure value only when no file is in use or, for getFragment, no mark is set. *)
C12_IOErrorPropagates ==
    [][/\ FailingFileCall =>
              /\ lastResult'.kind = "raised"
              /\ lastResult'.val = "IOError"
              /\ fragmentStart' = fragmentStart
              /\ file' = file
       /\ (lastCall'.op = "markFragmentStart" /\ lastResult'.kind = "bool"
              /\ ~lastResult'.val) => ~FileInUse
       /\ (lastCall'.op = "getFragment" /\ lastResult'.kind = "none") =>
              (~FileInUse \/ fragmentStart = NoMark)]_vars

(* C12 witness: with a mark set, getFragment's open failed: the call raised
   IOError and the mark is still set. *)
C12_Witness ==
    /\ lastCall.op = "getFragment"
    /\ lastCall.arg.ioFails
    /\ lastResult.kind = "raised"
    /\ lastResult.val = "IOError"
    /\ fragmentStart # NoMark

====
